---------------------------- MODULE Spec2Model ----------------------------
(***************************************************************************)
(* Model of the seam (ridge) extraction of                                 *)
(* ProcessingAlgorithms/SignalExtraction/ComplexSpecSeamExtraction.py:     *)
(* seamExtraction builds a cost table (DPTable) and a back-pointer table   *)
(* (parentTable) over a time x velocity slice of a spectrogram by a        *)
(* backward dynamic program, then reconstruction follows the back-pointers *)
(* forward in time from the cheapest start column.                         *)
(*                                                                         *)
(* Grids are indexed as the code indexes them after the transpose of       *)
(* lines 97-99: grid[t][v], t in 0..tableHeight-1, v in 0..tableWidth-1,   *)
(* column v being the absolute velocity bin v + bottomDP.                  *)
(*                                                                         *)
(* theta is held as a numerator over ThetaDen (theta = thetaNum/ThetaDen), *)
(* and every cost in DPTable is held multiplied by ThetaDen, so that       *)
(*   (1-theta)*amp + theta*phase + DPTable[t+1][c]                         *)
(* becomes (ThetaDen-thetaNum)*amp + thetaNum*phase + DPTable[t+1][c].     *)
(*                                                                         *)
(* The module also holds normalize of the same file, and the segment loop  *)
(* of PNSPipeline in pnspipe.py (segments, add_segment_result,             *)
(* postsegment).                                                           *)
(***************************************************************************)
EXTENDS Integers, Sequences, FiniteSets, TLC

\* ------------------------------------------------------------- bounds
\* Number of time bins of the slice (tableHeight; stopTime-startTime+1).
NumTimes == 3
\* Number of velocity bins of the slice (tableWidth).
NumBins == 3
\* Grid values range over 0..MaxVal.
MaxVal == 2
\* bottomIndex ranges over 0..MaxBottomIndex.
MaxBottomIndex == 1
\* mainTest calls seamExtraction at most MaxCalls times.
MaxCalls == 3
\* width ranges over 0..MaxWidth.
MaxWidth == 3
\* order ranges over 1..MaxOrder (in Spec: 1 and MaxOrder).
MaxOrder == 2
\* theta ranges over k/ThetaDen, k in 0..ThetaDen (in Spec: 0, 1/ThetaDen
\* and 1).
ThetaDen == 2
\* Number of bins of the whole velocity axis (SpectrogramObject.velocity).
NumVelocity == 3
\* A numeric theta argument ranges over k/ThetaDen, k in -MaxTheta..MaxTheta.
MaxTheta == 3
\* np.exp is computed to 1/ExpScale.
ExpScale == 1000
\* mainTest reconstructs at most MaxTraces seams from the tables of a call.
MaxTraces == 3
\* The pipeline has NumSources source files.
NumSources == 2
\* A source file has at most MaxSegments selected segments.
MaxSegments == 2
\* The last component of a source's rel_dir has 2 or MaxNameLength characters.
MaxNameLength == 3

VARIABLES
    computeMode,     \* SpectrogramObject.computeMode
    real_raw_vals,   \* third value of SpectrogramObject.slice, transposed
    ovals,           \* fourth value of SpectrogramObject.slice, transposed
    width,           \* argument width, as passed
    order,           \* argument order
    theta,           \* argument theta (numerator over ThetaDen)
    bottomIndex,     \* argument bottomIndex
    pc,              \* position of the call
    err,             \* the exception the call ended with, or "none"
    halfFan,         \* local halfFan
    bottomDP,        \* local bottomDP
    amplitudeArray,  \* local amplitudeArray, <<>> when empty
    phaseArray,      \* local phaseArray, <<>> when empty
    DPTable,         \* the cost table
    parentTable,     \* the back-pointer table
    dpTime,          \* loop variable dpTime
    velocityIndex,   \* loop variable velocityIndex
    velocities,      \* the returned seam
    written,         \* how often lines 127-128 have stored into each cell
    calls,           \* mainTest: the number of calls that have returned
    first,           \* mainTest: arguments and result of the first call, <<>> before
    startTime,       \* argument startTime
    stopTime,        \* argument stopTime
    thetaArg,        \* argument theta as passed: [kind, val]
    topIndexArg,     \* argument topIndex as passed: <<>> for None, <<n>> for n
    topIndex,        \* local topIndex after lines 63-66
    orderIsNone,     \* argument order is None (order is then not a number)
    stage,           \* how far the argument handling of lines 37-70 has got
    remaps,          \* how many of the assignments of lines 47 and 49 were made
    traces,          \* mainTest: the seams reconstructed so far, by start column
    retraced,        \* mainTest: the number of reconstruction calls so far
    timeVelocityIntensity,  \* normalize: its argument (changed in place)
    newArray,        \* normalize: local newArray, cells <<curr, maxValue>>
    timeInd,         \* normalize: loop variable timeInd
    gridAsPassed,    \* normalize: the argument as it was when passed
    threads,         \* PNSPipeline: self.threads, [kind, val]
    dry,             \* PNSPipeline: self.args.dry
    paths,           \* PNSPipeline: self.paths, as pairs <<source, segment>>
    nameLength,      \* PNSPipeline: characters of the last component of rel_dir
    remaining,       \* segments: the paths the loop of line 528 has not reached
    path,            \* segments: the path whose pipe is handed on, <<>> before
    results,         \* PNSPipeline: self.results, by path
    num_segments,    \* PNSPipeline: self.num_segments, by source
    postsegmentRuns, \* how often lines 455-456 have run for each source
    eeps             \* segments: the last exception caught at line 538

\* the state of the pipeline
pipeVars == <<threads, dry, paths, nameLength, remaining, path, results,
              num_segments, postsegmentRuns, eeps>>

vars == <<computeMode, real_raw_vals, ovals, width, order, theta, bottomIndex,
          pc, err, halfFan, bottomDP, amplitudeArray, phaseArray, DPTable,
          parentTable, dpTime, velocityIndex, velocities, written, calls,
          first, startTime, stopTime, thetaArg, topIndexArg, topIndex, orderIsNone,
          stage, remaps,
          traces, retraced, timeVelocityIntensity, newArray, timeInd,
          gridAsPassed, pipeVars>>

\* the arguments of lines 37-70 and what they leave behind
argVars == <<startTime, stopTime, thetaArg, topIndexArg, topIndex, orderIsNone,
             stage, remaps>>

\* the seams mainTest reconstructs
traceVars == <<traces, retraced>>

\* the state of normalize
normVars == <<timeVelocityIntensity, newArray, timeInd, gridAsPassed>>

inputs == <<computeMode, real_raw_vals, ovals, width, order, theta, bottomIndex>>

\* ------------------------------------------------------------ helpers
Abs(x) == IF x < 0 THEN 0 - x ELSE x

RECURSIVE Power(_, _)
Power(b, e) == IF e = 0 THEN 1 ELSE b * Power(b, e - 1)

\* len(a) of an array indexed from 0
Length(a) == Cardinality(DOMAIN a)

tableHeight == Length(real_raw_vals)
tableWidth == IF tableHeight = 0 THEN 0 ELSE Length(real_raw_vals[0])

Rows == 0 .. (tableHeight - 1)
Cols == 0 .. (tableWidth - 1)

ZeroTable(h, w) == [t \in 0 .. (h - 1) |-> [v \in 0 .. (w - 1) |-> 0]]

\* ------------------------------------------------- parameter handling
\* lines 50-51 left out: the width is halved as passed
HalfFanAsPassed(w) == w \div 2

\* lines 50-51 and 58: an odd width is incremented, halfFan is half of it
HalfFanOf(w) == (IF w % 2 = 1 THEN w + 1 ELSE w) \div 2

\* line 37 with < in the place of <=
RangeRejectedIfBefore(start, stop) == stop < start

\* line 37
RangeRejected(start, stop) == stop <= start

\* lines 41-44: float(theta). None and a container make float raise
\* TypeError, which line 43 catches and line 44 raises again; a string that
\* is no number makes float raise ValueError, which nothing catches.
FloatOf(arg) ==
    IF arg.kind \in {"real", "numtext"}
    THEN [ok |-> TRUE, err |-> "none", val |-> arg.val]
    ELSE IF arg.kind \in {"none", "list"}
         THEN [ok |-> FALSE, err |-> "TypeError", val |-> 0]
         ELSE [ok |-> FALSE, err |-> "ValueError", val |-> 0]

\* ExpScale * exp(k / ThetaDen) for k >= 0, by the power series, from its
\* n-th term on
RECURSIVE ExpSeries(_, _, _)
ExpSeries(k, n, term) ==
    IF term = 0 THEN 0
    ELSE term + ExpSeries(k, n + 1, (term * k) \div (ThetaDen * n))

\* np.exp: ExpScale * exp(x / ThetaDen)
Exp(x) ==
    IF x >= 0 THEN ExpSeries(x, 1, ExpScale)
    ELSE (ExpScale * ExpScale) \div ExpSeries(0 - x, 1, ExpScale)

\* np.exp of a theta held as a numerator over ThetaDen, as the nearest
\* numerator over ThetaDen
ExpOnGrid(x) == (2 * ThetaDen * Exp(x) + ExpScale) \div (2 * ExpScale)

\* line 49 as np.exp(theta)
NormaliseThetaUnsigned(th) ==
    LET first_ == IF 0 > th THEN ExpOnGrid(th) ELSE th
    IN  [theta |-> IF first_ > ThetaDen THEN ExpOnGrid(first_) ELSE first_,
         remaps |-> (IF 0 > th THEN 1 ELSE 0) + (IF first_ > ThetaDen THEN 1 ELSE 0)]

\* lines 46-49: the two tests, one after the other, on the local theta
NormaliseTheta(th) ==
    LET first_ == IF 0 > th THEN ExpOnGrid(th) ELSE th
    IN  [theta |-> IF first_ > ThetaDen THEN ExpOnGrid(0 - first_) ELSE first_,
         remaps |-> (IF 0 > th THEN 1 ELSE 0) + (IF first_ > ThetaDen THEN 1 ELSE 0)]

\* lines 63-66: SpectrogramObject.velocity.shape[0] is NumVelocity
TopIndexOf(top, bottom) ==
    IF top = <<>> THEN <<NumVelocity>>
    ELSE IF top[1] <= bottom THEN <<NumVelocity>> ELSE top

\* indexing an axis of n entries at i raises IndexError (line 70)
IndexRaises(i, n) == i >= n \/ i < 0 - n

\* order None taken as an exponent that np.power accepts
PowerOfNoneAccepted(isNone, amp, ph, hf) == FALSE

\* line 115 or 117 with order None: np.power raises TypeError when a grid is
\* there and the window holds a candidate
PowerOfNoneRaises(isNone, amp, ph, hf) ==
    isNone /\ hf >= 0 /\ (Length(amp) # 0 \/ Length(ph) # 0)

ComputeModes == {"complex", "psd", "magnitude", "angle", "phase", "other"}

\* lines 72-82: which grids the compute mode selects
AmplitudeOf(mode, raw) ==
    IF mode \in {"complex", "psd", "magnitude"} THEN raw ELSE <<>>

PhaseOf(mode, ov) ==
    IF mode \in {"angle", "phase"} THEN ov ELSE <<>>

\* ----------------------------------------------------------- cost model
\* the amplitudes added where line 114 subtracts them
ampAdditionOfSum(amp, ord, t, v, c) ==
    IF Length(amp) # 0 THEN Power(Abs(amp[t + 1][c] + amp[t][v]), ord) ELSE 0

\* lines 112-117: the two terms of an edge from (t, v) to (t+1, c)
ampAddition(amp, ord, t, v, c) ==
    IF Length(amp) # 0 THEN Power(Abs(amp[t + 1][c] - amp[t][v]), ord) ELSE 0

phaseAddition(ph, ord, t, v, c) ==
    IF Length(ph) # 0 THEN Power(Abs(ph[t + 1][c] - ph[t][v]), ord) ELSE 0

\* line 119 without the DPTable term
EdgeCost(amp, ph, th, ord, t, v, c) ==
    (ThetaDen - th) * ampAddition(amp, ord, t, v, c)
        + th * phaseAddition(ph, ord, t, v, c)

\* the comparison of line 121 turned round
ImprovesUpward(current, best) == (~best.found) \/ current > best.cost

\* line 121 with <= in the place of <: an equal candidate replaces the best
ImprovesOnTies(current, best) == (~best.found) \/ current <= best.cost

\* line 121: does the candidate replace the best so far
Improves(current, best) == (~best.found) \/ current < best.cost

\* lines 107-108
NoBest == [found |-> FALSE, cost |-> 0, pointer |-> 0]

\* lines 109-123: the scan of testIndex from o up to hf, nextRow being
\* DPTable[t+1]
RECURSIVE ScanOffsets(_, _, _, _, _, _, _, _, _, _)
ScanOffsets(amp, ph, th, ord, hf, nextRow, t, v, o, best) ==
    IF o > hf THEN best
    ELSE LET c == v + o
             w == Length(nextRow)
         IN  IF c >= 0 /\ c < w
             THEN LET current == EdgeCost(amp, ph, th, ord, t, v, c) + nextRow[c]
                  IN  IF Improves(current, best)
                      THEN ScanOffsets(amp, ph, th, ord, hf, nextRow, t, v, o + 1,
                               [found |-> TRUE, cost |-> current, pointer |-> c])
                      ELSE ScanOffsets(amp, ph, th, ord, hf, nextRow, t, v, o + 1, best)
             ELSE ScanOffsets(amp, ph, th, ord, hf, nextRow, t, v, o + 1, best)

\* the scan as range(-halfFan, halfFan): the last offset is never tried
BestOfUnbalanced(amp, ph, th, ord, hf, nextRow, t, v) ==
    ScanOffsets(amp, ph, th, ord, hf - 1, nextRow, t, v, 0 - hf, NoBest)

\* lines 107-123 for one cell
BestOf(amp, ph, th, ord, hf, nextRow, t, v) ==
    ScanOffsets(amp, ph, th, ord, hf, nextRow, t, v, 0 - hf, NoBest)

\* a row given as the pairs <<column, value>>, as an array
RowOf(pairs) ==
    [c \in {p[1] : p \in pairs} |-> (CHOOSE p \in pairs : p[1] = c)[2]]

\* lines 99-128 as a function of the grids, theta and halfFan: row t of the
\* cost table that the loops build with the order of the call, as the
\* pairs <<column, cost>>
RECURSIVE CostRowOn(_, _, _, _, _)
CostRowOn(amp, ph, th, hf, t) ==
    IF t >= tableHeight - 1 THEN {<<v, 0>> : v \in 0 .. (tableWidth - 1)}
    ELSE UNION {{<<v, BestOf(amp, ph, th, order, hf, RowOf(below), t, v).cost>> :
                    v \in 0 .. (tableWidth - 1)} :
                   below \in {CostRowOn(amp, ph, th, hf, t + 1)}}

\* the same for the grids and theta of the call
CostRowFor(hf, t) == CostRowOn(amplitudeArray, phaseArray, theta, hf, t)

\* np.argmax in the place of np.argmin
ArgMax(row) ==
    CHOOSE i \in DOMAIN row :
        /\ \A j \in DOMAIN row : row[i] >= row[j]
        /\ \A j \in DOMAIN row : row[j] = row[i] => i <= j

\* line 131: np.argmin returns the first index of the minimum
ArgMin(row) ==
    CHOOSE i \in DOMAIN row :
        /\ \A j \in DOMAIN row : row[i] <= row[j]
        /\ \A j \in DOMAIN row : row[j] = row[i] => i <= j

\* lines 142-152: reconstruction(parentTable, startPoint, bottomDP)
RECURSIVE Follow(_, _, _)
Follow(parents, timeIndex, startPoint) ==
    IF timeIndex = 0 THEN startPoint
    ELSE parents[timeIndex - 1][Follow(parents, timeIndex - 1, startPoint)]

\* line 150 left out: the seam never leaves its start column
reconstructionStuck(parents, startPoint, bottom) ==
    [timeIndex \in DOMAIN parents |-> startPoint + bottom]

\* lines 146 and 150 exchanged: the bin is recorded after the step
reconstructionLate(parents, startPoint, bottom) ==
    [timeIndex \in DOMAIN parents |->
        parents[timeIndex][Follow(parents, timeIndex, startPoint)] + bottom]

\* line 146 as velocities[timeIndex] = startPoint: the columns of the
\* slice, not the bins of the velocity axis
reconstructionOfColumns(parents, startPoint, bottom) ==
    [timeIndex \in DOMAIN parents |-> Follow(parents, timeIndex, startPoint)]

\* lines 142-152
reconstruction(parents, startPoint, bottom) ==
    [timeIndex \in DOMAIN parents |-> Follow(parents, timeIndex, startPoint) + bottom]

\* the back-pointer read at line 150 is also cleared
TableAfterConsuming(parents, startPoint) ==
    [parents EXCEPT ![0][startPoint] = 0]

\* lines 142-152: reconstruction only reads parentTable; this is the table
\* after the call
TableAfterReconstruction(parents, startPoint) == parents

\* ---------------------------------------------------------- normalize
\* np.min and np.max of a row
RowMin(row) == CHOOSE x \in {row[v] : v \in DOMAIN row} : \A v \in DOMAIN row : x <= row[v]

RowMax(row) == CHOOSE x \in {row[v] : v \in DOMAIN row} : \A v \in DOMAIN row : x >= row[v]

\* line 166 left out
NotShifted(row, minValue) == row

\* line 166: the row with -1*minValue added to every entry
Shifted(row, minValue) == [v \in DOMAIN row |-> row[v] + (0 - 1) * minValue]

\* line 170: curr/maxValue of two numpy scalars, as the fraction
\* <<numerator, denominator>>; numpy warns and gives nan for 0/0 and inf
\* for x/0, which are held as <<0, 0>> and <<1, 0>>
Quotient(curr, maxValue) ==
    IF maxValue # 0 THEN <<curr, maxValue>>
    ELSE IF curr = 0 THEN <<0, 0>> ELSE <<1, 0>>

\* line 163: np.zeros of the shape of the grid
ZeroFractions(grid) ==
    [t \in DOMAIN grid |-> [v \in DOMAIN grid[t] |-> <<0, 1>>]]

\* lines 165-171 for one time bin: the row after line 166 and the row of
\* newArray
NormalizedRow(row) ==
    LET shifted == Shifted(row, RowMin(row))
    IN  [kept |-> shifted,
         new |-> [v \in DOMAIN row |-> Quotient(shifted[v], RowMax(shifted))]]

\* ------------------------------------------------------------- fields
Cells == (0 .. (NumTimes - 1)) \X (0 .. (NumBins - 1))

\* a flat background with the cells of S set to f
FieldOf(background, S, f) ==
    [t \in 0 .. (NumTimes - 1) |->
        [v \in 0 .. (NumBins - 1) |->
            IF <<t, v>> \in S THEN f[<<t, v>>] ELSE background]]

\* zero background, one cell of any value
SingleSpikeFields ==
    UNION {{FieldOf(0, {c}, f) : f \in [{c} -> 0 .. MaxVal]} : c \in Cells}

\* zero background, two cells of any value
SpikedFields ==
    UNION {{FieldOf(0, {p[1], p[2]}, f) : f \in [{p[1], p[2]} -> 0 .. MaxVal]} :
              p \in Cells \X Cells}

\* zero background, one whole time bin at a level of its own, and one cell
\* of any value
LevelledFields ==
    UNION {{[f EXCEPT ![t] = [v \in DOMAIN f[t] |->
                                  IF f[t][v] = 0 THEN level ELSE f[t][v] - 1]] :
               f \in SingleSpikeFields} :
              <<t, level>> \in (0 .. (NumTimes - 1)) \X (1 .. MaxVal)}

\* every cell at the same level
FlatFields == {FieldOf(level, {}, <<>>) : level \in 0 .. MaxVal}

\* the velocity bin of the peak at each time bin (times 0..3 at 1..4), on a
\* velocity axis of the bins 0..4
ridge == <<2, 3, 3, 4>>

\* the slice of bins bottom+1..4 of the ridge field, the peak of time t
\* being peaks[t]
RidgeField(peaks, bottom) ==
    [t \in 0 .. (Len(ridge) - 1) |->
        [v \in 0 .. (ridge[Len(ridge)] - bottom - 1) |->
            IF v + bottom + 1 = ridge[t + 1] THEN peaks[t] ELSE 0]]

RidgeFields ==
    {RidgeField(peaks, 0) : peaks \in [0 .. (Len(ridge) - 1) -> 1 .. MaxVal]}

\* the phase-like grid that comes with an amplitude-like grid: the same
\* field with its velocity axis reversed
Mirror(f) ==
    [t \in DOMAIN f |-> [v \in DOMAIN f[t] |-> f[t][Length(f[t]) - 1 - v]]]

\* -------------------------------------------------------------- state
\* lines 37-70 have accepted the arguments: the time range is in order,
\* theta is a number of [0, 1], order is a number, and topIndex is the top
\* bin of the slice
ArgsAccepted ==
    /\ startTime = 0
    /\ stopTime = Length(real_raw_vals) - 1
    /\ thetaArg = [kind |-> "real", val |-> theta]
    /\ topIndex = <<bottomIndex + Length(real_raw_vals[0])>>
    /\ topIndexArg = topIndex
    /\ orderIsNone = FALSE
    /\ stage = "sliced"
    /\ remaps = 0

\* mainTest has reconstructed no seam
NotTraced ==
    /\ traces = <<>>
    /\ retraced = 0

\* normalize is not running
NotNormalizing ==
    /\ timeVelocityIntensity = <<>>
    /\ newArray = <<>>
    /\ timeInd = 0
    /\ gridAsPassed = <<>>

\* the pipeline is not running
NotPiping ==
    /\ threads = [kind |-> "int", val |-> 1]
    /\ dry = FALSE
    /\ paths = {}
    /\ nameLength = <<>>
    /\ remaining = {}
    /\ path = <<>>
    /\ results = <<>>
    /\ num_segments = <<>>
    /\ postsegmentRuns = <<>>
    /\ eeps = "none"

\* the locals before the first call
NotCalled ==
    /\ ArgsAccepted
    /\ NotTraced
    /\ NotNormalizing
    /\ NotPiping
    /\ pc = "call"
    /\ err = "none"
    /\ halfFan = 0
    /\ bottomDP = 0
    /\ amplitudeArray = <<>>
    /\ phaseArray = <<>>
    /\ DPTable = <<>>
    /\ parentTable = <<>>
    /\ dpTime = 0
    /\ velocityIndex = 0
    /\ velocities = <<>>
    /\ written = <<>>
    /\ calls = 0
    /\ first = <<>>

Init ==
    /\ computeMode \in ComputeModes
    /\ real_raw_vals \in (IF computeMode = "psd"
                          THEN SpikedFields \cup LevelledFields
                          ELSE SingleSpikeFields)
    /\ ovals = Mirror(real_raw_vals)
    /\ width \in 0 .. MaxWidth
    /\ order \in {1, MaxOrder}
    /\ theta \in {0, 1, ThetaDen}
    /\ bottomIndex = 0
    /\ NotCalled

InitFlat ==
    /\ computeMode \in ComputeModes
    /\ real_raw_vals \in FlatFields
    /\ ovals = Mirror(real_raw_vals)
    /\ width \in 0 .. MaxWidth
    /\ order \in 1 .. MaxOrder
    /\ theta \in 0 .. ThetaDen
    /\ bottomIndex \in 0 .. MaxBottomIndex
    /\ NotCalled

InitWindow ==
    /\ computeMode = "psd"
    /\ real_raw_vals \in SpikedFields \cup LevelledFields
    /\ ovals = Mirror(real_raw_vals)
    /\ width \in 0 .. MaxWidth
    /\ order \in {1, MaxOrder}
    /\ theta = 0
    /\ bottomIndex = 0
    /\ NotCalled

InitRidge ==
    /\ computeMode \in {"psd", "magnitude"}
    /\ real_raw_vals \in RidgeFields
    /\ ovals = Mirror(real_raw_vals)
    /\ width = 3
    /\ order = 2
    /\ theta = 0
    /\ bottomIndex = 0
    /\ NotCalled

InitRepeat ==
    /\ computeMode \in {"psd", "phase"}
    /\ real_raw_vals \in SingleSpikeFields
    /\ ovals = Mirror(real_raw_vals)
    /\ width \in 0 .. MaxWidth
    /\ order \in 1 .. MaxOrder
    /\ theta = 1
    /\ bottomIndex = 0
    /\ NotCalled

\* the values theta is passed as: None, a string that is no number, a
\* container, a string that is a number, a number
ThetaArgs ==
    {[kind |-> k, val |-> 0] : k \in {"none", "text", "list"}}
        \cup {[kind |-> "numtext", val |-> 1]}
        \cup {[kind |-> "real", val |-> x] : x \in (0 - MaxTheta) .. MaxTheta}

\* what SpectrogramObject.slice hands back for h time bins and w velocity
\* bins, both ends included: zero but for one cell of the first time bin
SliceFields(h, w) ==
    {[t \in 0 .. (h - 1) |->
         [v \in 0 .. (w - 1) |-> IF t = 0 /\ v = c THEN MaxVal ELSE 0]] :
        c \in 0 .. (w - 1)}

\* seamExtraction is entered with arguments of every kind; the time axis has
\* NumTimes entries and the velocity axis NumVelocity
InitArgs ==
    /\ computeMode \in {"psd", "phase", "other"}
    /\ real_raw_vals = <<>>
    /\ ovals = <<>>
    /\ width \in {0 - 2, 0, MaxWidth}
    /\ orderIsNone \in BOOLEAN
    /\ order = IF orderIsNone THEN 0 ELSE MaxOrder
    /\ thetaArg \in ThetaArgs
    /\ theta = 0
    /\ remaps = 0
    /\ bottomIndex \in 0 .. (NumVelocity - 1)
    /\ topIndexArg \in {<<>>} \cup {<<n>> : n \in 0 .. (NumVelocity - 1)}
    /\ topIndex = topIndexArg
    /\ startTime \in 0 .. NumTimes
    /\ stopTime \in 0 .. NumTimes
    /\ stage = "none"
    /\ NotTraced
    /\ NotNormalizing
    /\ NotPiping
    /\ pc = "enter"
    /\ err = "none"
    /\ halfFan = 0
    /\ bottomDP = 0
    /\ amplitudeArray = <<>>
    /\ phaseArray = <<>>
    /\ DPTable = <<>>
    /\ parentTable = <<>>
    /\ dpTime = 0
    /\ velocityIndex = 0
    /\ velocities = <<>>
    /\ written = <<>>
    /\ calls = 0
    /\ first = <<>>

\* rows of a grid given to normalize: all entries at one level, or a ramp
\* from a level with one entry of any value
FlatRow(b) == [v \in 0 .. (NumBins - 1) |-> b]

RampRow(b, i, x) == [v \in 0 .. (NumBins - 1) |-> IF v = i THEN x ELSE b + v]

NormalizeRows ==
    {FlatRow(b) : b \in (0 - 1) .. MaxVal}
        \cup {RampRow(p[1], p[2], p[3]) :
                 p \in ((0 - 1) .. MaxVal) \X (0 .. (NumBins - 1)) \X ((0 - 1) .. MaxVal)}

\* grids given to normalize: one time bin holds any of the rows, the others
\* are all flat or all ramps
NormalizeGrids ==
    {[t \in 0 .. (NumTimes - 1) |-> IF t = p[1] THEN p[2] ELSE p[3]] :
        p \in (0 .. (NumTimes - 1)) \X NormalizeRows \X {FlatRow(0), RampRow(0, 0, 0)}}

\* normalize is called on a grid; seamExtraction is not running
InitNormalize ==
    /\ timeVelocityIntensity \in NormalizeGrids
    /\ gridAsPassed = timeVelocityIntensity
    /\ newArray = <<>>
    /\ timeInd = 0
    /\ pc = "normalize"
    /\ err = "none"
    /\ computeMode = "psd"
    /\ real_raw_vals = <<>>
    /\ ovals = <<>>
    /\ width = 0
    /\ order = 1
    /\ orderIsNone = FALSE
    /\ theta = 0
    /\ thetaArg = [kind |-> "real", val |-> 0]
    /\ remaps = 0
    /\ bottomIndex = 0
    /\ topIndexArg = <<>>
    /\ topIndex = <<>>
    /\ startTime = 0
    /\ stopTime = 0
    /\ stage = "none"
    /\ NotTraced
    /\ NotPiping
    /\ halfFan = 0
    /\ bottomDP = 0
    /\ amplitudeArray = <<>>
    /\ phaseArray = <<>>
    /\ DPTable = <<>>
    /\ parentTable = <<>>
    /\ dpTime = 0
    /\ velocityIndex = 0
    /\ velocities = <<>>
    /\ written = <<>>
    /\ calls = 0
    /\ first = <<>>

\* a call whose tables mainTest reconstructs seams from
InitTrace ==
    /\ computeMode \in {"psd", "phase"}
    /\ real_raw_vals \in SingleSpikeFields
    /\ ovals = Mirror(real_raw_vals)
    /\ width \in 0 .. MaxWidth
    /\ order \in {1, MaxOrder}
    /\ theta = 1
    /\ bottomIndex \in 0 .. MaxBottomIndex
    /\ NotCalled

\* the loop of line 104 as range(3, tableHeight+1): the row above the last
\* one is left out
StartRowSkipping(h) == h - 3

\* lines 104-105: the first dpTime is tableHeight - 2
StartRow(h) == h - 2

\* np.empty in the place of np.zeros: the table is handed the memory the
\* seam of the call before was in
EmptyTable(h, w) ==
    [t \in 0 .. (h - 1) |->
        [v \in 0 .. (w - 1) |-> IF t \in DOMAIN velocities THEN velocities[t] ELSE 0]]

\* np.ones in the place of np.zeros
OnesTable(h, w) == [t \in 0 .. (h - 1) |-> [v \in 0 .. (w - 1) |-> 1]]

\* lines 100 and 102: np.zeros
NewTable(h, w) == ZeroTable(h, w)

\* lines 37-49 and 63-70: the check of the time range, the conversion and
\* the remap of theta, the default of topIndex and the request of the
\* slice, which indexes the time axis at startTime and stopTime and the
\* velocity axis at bottomIndex + 1 and topIndex
Enter ==
    /\ pc = "enter"
    /\ IF RangeRejected(startTime, stopTime)
       THEN /\ pc' = "raised"
            /\ err' = "ValueError"
            /\ stage' = "range"
            /\ UNCHANGED <<theta, remaps, topIndex, real_raw_vals, ovals>>
       ELSE IF ~FloatOf(thetaArg).ok
       THEN /\ pc' = "raised"
            /\ err' = FloatOf(thetaArg).err
            /\ stage' = "theta"
            /\ UNCHANGED <<theta, remaps, topIndex, real_raw_vals, ovals>>
       ELSE /\ theta' = NormaliseTheta(FloatOf(thetaArg).val).theta
            /\ remaps' = NormaliseTheta(FloatOf(thetaArg).val).remaps
            /\ topIndex' = TopIndexOf(topIndexArg, bottomIndex)
            /\ IF \/ IndexRaises(startTime, NumTimes)
                  \/ IndexRaises(stopTime, NumTimes)
                  \/ IndexRaises(bottomIndex + 1, NumVelocity)
                  \/ IndexRaises(topIndex'[1], NumVelocity)
               THEN /\ pc' = "raised"
                    /\ err' = "IndexError"
                    /\ stage' = "slice"
                    /\ UNCHANGED <<real_raw_vals, ovals>>
               ELSE /\ real_raw_vals' \in SliceFields(stopTime - startTime + 1,
                                                      topIndex'[1] - bottomIndex)
                    /\ ovals' = Mirror(real_raw_vals')
                    /\ pc' = "call"
                    /\ err' = "none"
                    /\ stage' = "sliced"
    /\ UNCHANGED <<computeMode, width, order, bottomIndex, startTime, stopTime,
                   thetaArg, topIndexArg, orderIsNone, halfFan, bottomDP,
                   amplitudeArray, phaseArray, DPTable, parentTable, dpTime,
                   velocityIndex, velocities, written, calls, first, traceVars,
                   normVars, pipeVars>>

\* lines 50-102 on the slice of line 70: halfFan, the seam buffer of line
\* 55, the grids of the compute mode and the allocation of the two tables.
\* In complex mode line 78 calls np.arctan2 with one argument, which raises
\* TypeError.
Call ==
    /\ pc = "call"
    /\ halfFan' = HalfFanOf(width)
    /\ bottomDP' = bottomIndex + 1
    /\ IF computeMode = "complex"
       THEN /\ pc' = "raised"
            /\ err' = "TypeError"
            /\ UNCHANGED <<amplitudeArray, phaseArray, DPTable, parentTable,
                           dpTime, velocityIndex, written>>
       ELSE /\ amplitudeArray' = AmplitudeOf(computeMode, real_raw_vals)
            /\ phaseArray' = PhaseOf(computeMode, ovals)
            /\ DPTable' = NewTable(tableHeight, tableWidth)
            /\ parentTable' = NewTable(tableHeight, tableWidth)
            /\ written' = ZeroTable(tableHeight, tableWidth)
            /\ dpTime' = StartRow(tableHeight)
            /\ velocityIndex' = 0
            /\ pc' = IF tableHeight >= 2 /\ tableWidth >= 1
                     THEN "fill" ELSE "reconstruct"
            /\ err' = "none"
    /\ velocities' = [t \in 0 .. (tableHeight - 1) |-> 0]
    /\ UNCHANGED <<inputs, calls, first, argVars, traceVars, normVars, pipeVars>>

\* lines 106-128 for the cell (dpTime, velocityIndex), and the step of the
\* two loops of lines 104-106 to the next cell. With order None np.power
\* raises TypeError at the first candidate. With no candidate found
\* bestPointer is None, and storing it in the int64 parentTable raises
\* TypeError (the tables are locals and are lost with the call).
FillCell ==
    /\ pc = "fill"
    /\ IF PowerOfNoneRaises(orderIsNone, amplitudeArray, phaseArray, halfFan)
       THEN /\ pc' = "raised"
            /\ err' = "TypeError"
            /\ UNCHANGED <<DPTable, parentTable, dpTime, velocityIndex, written>>
       ELSE
       LET best == BestOf(amplitudeArray, phaseArray, theta, order, halfFan,
                          DPTable[dpTime + 1], dpTime, velocityIndex)
       IN  IF best.found
           THEN /\ DPTable' = [DPTable EXCEPT ![dpTime][velocityIndex] = best.cost]
                /\ parentTable' =
                       [parentTable EXCEPT ![dpTime][velocityIndex] = best.pointer]
                /\ written' = [written EXCEPT ![dpTime][velocityIndex] = @ + 1]
                /\ err' = err
                /\ IF velocityIndex + 1 < tableWidth
                   THEN /\ velocityIndex' = velocityIndex + 1
                        /\ UNCHANGED <<dpTime, pc>>
                   ELSE IF dpTime > 0
                        THEN /\ velocityIndex' = 0
                             /\ dpTime' = dpTime - 1
                             /\ UNCHANGED pc
                        ELSE /\ pc' = "reconstruct"
                             /\ UNCHANGED <<dpTime, velocityIndex>>
           ELSE /\ pc' = "raised"
                /\ err' = "TypeError"
                /\ UNCHANGED <<DPTable, parentTable, dpTime, velocityIndex,
                               written>>
    /\ UNCHANGED <<inputs, halfFan, bottomDP, amplitudeArray, phaseArray,
                   velocities, calls, first, argVars, traceVars, normVars,
                   pipeVars>>

\* lines 131-139: the cheapest start column and its seam
Reconstruct ==
    /\ pc = "reconstruct"
    /\ velocities' = reconstruction(parentTable, ArgMin(DPTable[0]), bottomDP)
    /\ pc' = "done"
    /\ UNCHANGED <<inputs, err, halfFan, bottomDP, amplitudeArray, phaseArray,
                   DPTable, parentTable, dpTime, velocityIndex, written, calls,
                   first, argVars, traceVars, normVars, pipeVars>>

\* mainTest, lines 191-195: the call has returned signal, p_table and
\* dp_table, and seamExtraction is called again on the same
\* SpectrogramObject with the next width; the tables and the seam of the
\* call before are still held
NextCall ==
    /\ pc = "done"
    /\ calls + 1 < MaxCalls
    /\ calls' = calls + 1
    /\ first' = IF calls = 0
                THEN [args |-> <<width, order, theta>>,
                      result |-> <<velocities, parentTable, DPTable>>]
                ELSE first
    /\ width' \in 0 .. MaxWidth
    /\ pc' = "call"
    /\ UNCHANGED <<computeMode, real_raw_vals, ovals, order, theta, bottomIndex,
                   err, halfFan, bottomDP, amplitudeArray, phaseArray, DPTable,
                   parentTable, dpTime, velocityIndex, velocities, written,
                   argVars, traceVars, normVars, pipeVars>>

\* mainTest, lines 234 and 252-253: reconstruction(p_table, velInd, botVel)
\* on the tables the call returned, for a start column of the slice
Retrace ==
    /\ pc = "done"
    /\ retraced < MaxTraces
    /\ \E velInd \in Cols :
           /\ traces' = [v \in DOMAIN traces \cup {velInd} |->
                             IF v = velInd
                             THEN reconstruction(parentTable, velInd, bottomDP)
                             ELSE traces[v]]
           /\ parentTable' = TableAfterReconstruction(parentTable, velInd)
    /\ retraced' = retraced + 1
    /\ UNCHANGED <<inputs, pc, err, halfFan, bottomDP, amplitudeArray, phaseArray,
                   DPTable, dpTime, velocityIndex, velocities, written, calls,
                   first, argVars, normVars, pipeVars>>

\* the variables of seamExtraction and of mainTest
extractionVars == <<inputs, err, halfFan, bottomDP, amplitudeArray, phaseArray,
                    DPTable, parentTable, dpTime, velocityIndex, velocities,
                    written, calls, first, argVars, traceVars>>

\* normalize, line 163
NormalizeEnter ==
    /\ pc = "normalize"
    /\ newArray' = ZeroFractions(timeVelocityIntensity)
    /\ timeInd' = 0
    /\ pc' = "rows"
    /\ UNCHANGED <<extractionVars, timeVelocityIntensity, gridAsPassed, pipeVars>>

\* normalize, lines 164-171 for the time bin timeInd: the row of the
\* argument is shifted in place and its quotients are stored in newArray
NormalizeRow ==
    /\ pc = "rows"
    /\ timeInd < Length(timeVelocityIntensity)
    /\ timeVelocityIntensity' =
           [timeVelocityIntensity EXCEPT
                ![timeInd] = NormalizedRow(timeVelocityIntensity[timeInd]).kept]
    /\ newArray' =
           [newArray EXCEPT
                ![timeInd] = NormalizedRow(timeVelocityIntensity[timeInd]).new]
    /\ timeInd' = timeInd + 1
    /\ UNCHANGED <<extractionVars, pc, gridAsPassed, pipeVars>>

\* normalize, line 173
NormalizeReturn ==
    /\ pc = "rows"
    /\ timeInd = Length(timeVelocityIntensity)
    /\ pc' = "normalized"
    /\ UNCHANGED <<extractionVars, normVars, pipeVars>>

\* ----------------------------------------------------------- pipeline
\* PNSPipeline of pnspipe.py: segments() handles the selected segment files
\* one after the other, add_segment_result records the results of each and
\* counts down the segments of its source file, and postsegment runs the
\* postsegment routines of a source file.
Sources == 1 .. NumSources

\* self.args.threads after parse_args: the default, the integer 1, or the
\* text that came with -t (line 407 gives the option no type)
ThreadsArgs ==
    {[kind |-> "int", val |-> 1]} \cup {[kind |-> "text", val |-> n] : n \in 1 .. 2}

\* lines 473-490: the number of selected paths of each source file
SegmentCounts(selected) ==
    [src \in {p[1] : p \in selected} |-> Cardinality({p \in selected : p[1] = src})]

\* line 499, self.threads > 1: a text does not compare with an integer
ThreadsCompareRaises(t) == t.kind = "text"

\* line 450, _, src = os.path.split(source)[1]: the last component of the
\* path, a string of n characters, is unpacked into two names, which raises
\* ValueError unless n is 2
SplitRaises(n) == n # 2

\* PNSPipeline.run is about to call segments(): the files selected are the
\* segments 1..n of every source file, n from 0 to MaxSegments, and the
\* last component of a source's rel_dir has 2 or MaxNameLength characters
InitPipeline ==
    /\ threads \in ThreadsArgs
    /\ dry \in BOOLEAN
    /\ \E count \in [Sources -> 0 .. MaxSegments] :
           paths = {p \in Sources \X (1 .. MaxSegments) : p[2] <= count[p[1]]}
    /\ nameLength \in [Sources -> {2, MaxNameLength}]
    /\ remaining = {}
    /\ path = <<>>
    /\ results = <<>>
    /\ num_segments = <<>>
    /\ postsegmentRuns = [src \in Sources |-> 0]
    /\ eeps = "none"
    /\ pc = "segments"
    /\ err = "none"
    /\ computeMode = "psd"
    /\ real_raw_vals = <<>>
    /\ ovals = <<>>
    /\ width = 0
    /\ order = 1
    /\ orderIsNone = FALSE
    /\ theta = 0
    /\ thetaArg = [kind |-> "real", val |-> 0]
    /\ remaps = 0
    /\ bottomIndex = 0
    /\ topIndexArg = <<>>
    /\ topIndex = <<>>
    /\ startTime = 0
    /\ stopTime = 0
    /\ stage = "none"
    /\ NotTraced
    /\ NotNormalizing
    /\ halfFan = 0
    /\ bottomDP = 0
    /\ amplitudeArray = <<>>
    /\ phaseArray = <<>>
    /\ DPTable = <<>>
    /\ parentTable = <<>>
    /\ dpTime = 0
    /\ velocityIndex = 0
    /\ velocities = <<>>
    /\ written = <<>>
    /\ calls = 0
    /\ first = <<>>

\* segments, lines 471-499: the paths and the countdown of every source are
\* set up; with no path the method returns, and with a text for threads
\* the comparison of line 499 raises TypeError. (The branch of lines
\* 500-526 needs an integer above 1, which parse_args never gives.)
Segments ==
    /\ pc = "segments"
    /\ num_segments' = SegmentCounts(paths)
    /\ IF paths = {}
       THEN pc' = "returned" /\ err' = err /\ remaining' = remaining
       ELSE IF ThreadsCompareRaises(threads)
       THEN pc' = "raised" /\ err' = "TypeError" /\ remaining' = remaining
       ELSE pc' = "loop" /\ err' = err /\ remaining' = paths
    /\ UNCHANGED <<threads, dry, paths, nameLength, path, results,
                   postsegmentRuns, eeps>>
    /\ UNCHANGED <<inputs, halfFan, bottomDP, amplitudeArray, phaseArray, DPTable,
                   parentTable, dpTime, velocityIndex, velocities, written,
                   calls, first, argVars, traceVars, normVars>>

\* segments, lines 528-542 up to the call of add_segment_result, for the next
\* path (the order of the paths is that of DigFile.all_dig_files, any
\* order): a dry run stores "Sure!" under the title; else PNSPipe runs the
\* onsegment routines, and an exception of one of them is caught and
\* printed at line 538
RunPipe ==
    /\ pc = "loop"
    /\ \E p \in remaining :
           /\ remaining' = remaining \ {p}
           /\ IF dry
              THEN /\ results' = [q \in DOMAIN results \cup {p} |->
                                      IF q = p THEN "Sure!" ELSE results[q]]
                   /\ UNCHANGED <<pc, path, eeps>>
              ELSE /\ results' = results
                   /\ \/ pc' = "record" /\ path' = p /\ eeps' = eeps
                      \/ pc' = "loop" /\ path' = path /\ eeps' = "Exception"
    /\ UNCHANGED <<threads, dry, paths, nameLength, num_segments, postsegmentRuns>>
    /\ UNCHANGED <<extractionVars, normVars>>

\* add_segment_result, lines 459-462: the results are stored under the title
RecordResult ==
    /\ pc = "record"
    /\ results' = [q \in DOMAIN results \cup {path} |->
                       IF q = path THEN "pipe" ELSE results[q]]
    /\ pc' = "count"
    /\ UNCHANGED <<threads, dry, paths, nameLength, remaining, path, num_segments,
                   postsegmentRuns, eeps>>
    /\ UNCHANGED <<extractionVars, normVars>>

\* add_segment_result, lines 465-468: the countdown of the source
CountDown ==
    /\ pc = "count"
    /\ num_segments' = [num_segments EXCEPT ![path[1]] = @ - 1]
    /\ pc' = IF num_segments'[path[1]] = 0 THEN "postsegment" ELSE "loop"
    /\ UNCHANGED <<threads, dry, paths, nameLength, remaining, path, results,
                   postsegmentRuns, eeps>>
    /\ UNCHANGED <<extractionVars, normVars>>

\* postsegment, lines 441-456, called at line 469: the unpacking of line 450
\* raises ValueError, which line 538 catches and prints, or the postsegment
\* routines run on the results of the source
Postsegment ==
    /\ pc = "postsegment"
    /\ IF SplitRaises(nameLength[path[1]])
       THEN /\ eeps' = "ValueError"
            /\ UNCHANGED postsegmentRuns
       ELSE /\ postsegmentRuns' = [postsegmentRuns EXCEPT ![path[1]] = @ + 1]
            /\ UNCHANGED eeps
    /\ pc' = "loop"
    /\ UNCHANGED <<threads, dry, paths, nameLength, remaining, path, results,
                   num_segments>>
    /\ UNCHANGED <<extractionVars, normVars>>

\* segments, line 528: no path is left
SegmentsReturn ==
    /\ pc = "loop"
    /\ remaining = {}
    /\ pc' = "returned"
    /\ UNCHANGED <<pipeVars, extractionVars, normVars>>

NextPipeline ==
    Segments \/ RunPipe \/ RecordResult \/ CountDown \/ Postsegment \/ SegmentsReturn

\* one call of PNSPipeline.segments
SpecPipeline == InitPipeline /\ [][NextPipeline]_vars

Next == Call \/ FillCell \/ Reconstruct

NextNormalize == NormalizeEnter \/ NormalizeRow \/ NormalizeReturn

NextTrace == Call \/ FillCell \/ Reconstruct \/ Retrace

NextRepeat == Call \/ FillCell \/ Reconstruct \/ NextCall

NextArgs == Enter \/ Call \/ FillCell \/ Reconstruct

\* one call of seamExtraction on a field of at most two spikes
Spec == Init /\ [][Next]_vars

\* one call on a flat field
SpecFlat == InitFlat /\ [][Next]_vars

\* one call with the amplitude grid alone, for the comparison of windows
SpecWindow == InitWindow /\ [][Next]_vars

\* one call on the ridge field
SpecRidge == InitRidge /\ [][Next]_vars

\* the calls of mainTest on one SpectrogramObject
SpecRepeat == InitRepeat /\ [][NextRepeat]_vars

\* one call, and the seams mainTest reconstructs from its tables
SpecTrace == InitTrace /\ [][NextTrace]_vars

\* one call of normalize
SpecNormalize == InitNormalize /\ [][NextNormalize]_vars

\* one call from its first line, with arguments of every kind
SpecArgs == InitArgs /\ [][NextArgs]_vars

\* ------------------------------------------------------------- claims
\* the columns an edge from column v may lead to
Successors(hf, v) == {c \in Cols : c - v >= 0 - hf /\ c - v <= hf}

MinOf(S) == CHOOSE x \in S : \A y \in S : x <= y

\* the cost of the edge from (t, v) to (t+1, c) in the call's grids
Edge(t, v, c) == EdgeCost(amplitudeArray, phaseArray, theta, order, t, v, c)

\* C1: when seamExtraction has returned, every cell of the rows 0..T-2 holds the
\* minimum, over the offsets in [-halfFan, halfFan] that stay inside the
\* columns, of the edge cost plus the cost table's entry below it.
C1_Optimality ==
    pc = "done" =>
        \A t \in 0 .. (tableHeight - 2) : \A v \in Cols :
            DPTable[t][v] =
                MinOf({Edge(t, v, c) + DPTable[t + 1][c] : c \in Successors(halfFan, v)})

\* a cell whose window is cut by the border, whose cost is not zero and
\* whose cheapest edge does not go straight on
C1_Witness ==
    /\ pc = "done"
    /\ halfFan >= 1
    /\ \E v \in Cols : /\ v - halfFan < 0
                       /\ DPTable[0][v] > 0
                       /\ parentTable[0][v] # v
                       /\ DPTable[1][parentTable[0][v]] > 0

\* the pairs <<v, x>> such that some seam starts at column v of time bin t,
\* runs to the last time bin moving by at most hf columns per time bin, and
\* has the total edge cost x; every seam is followed, no minimum is taken
\* on the way
RECURSIVE SeamCosts(_, _)
SeamCosts(hf, t) ==
    IF t >= tableHeight - 1 THEN {<<v, 0>> : v \in Cols}
    ELSE UNION {{<<v, Edge(t, v, below[1]) + below[2]>> :
                    v \in {u \in Cols : below[1] \in Successors(hf, u)}} :
                   below \in SeamCosts(hf, t + 1)}

\* the sum of the edge costs along a sequence of columns, from its i-th
RECURSIVE PathCost(_, _)
PathCost(p, i) ==
    IF i >= Len(p) THEN 0 ELSE Edge(i - 1, p[i], p[i + 1]) + PathCost(p, i + 1)

\* a seam of absolute bins as a sequence of columns
ColumnsOf(seam) == [i \in 1 .. Length(seam) |-> seam[i - 1] - bottomDP]

\* does the seam (a sequence of columns) stay inside the columns and move
\* by at most hf columns per time bin
ValidSeam(hf, p) ==
    /\ Len(p) = tableHeight
    /\ \A i \in 1 .. Len(p) : p[i] \in Cols
    /\ \A i \in 1 .. (Len(p) - 1) : p[i + 1] \in Successors(hf, p[i])

\* C2: when seamExtraction has returned, the first row of the cost table
\* holds, for every start column, the least total edge cost among all the
\* seams that start there and move by at most halfFan columns per time bin
\* (all of them enumerated), and the returned seam is such a seam, starts
\* at a column of least cost and costs no more than any of them.
C2_GlobalOptimum ==
    pc = "done" =>
        \A costs \in {SeamCosts(halfFan, 0)} :
            LET seam == ColumnsOf(velocities)
            IN  /\ \A v0 \in Cols :
                       DPTable[0][v0] = MinOf({c[2] : c \in {d \in costs : d[1] = v0}})
                /\ ValidSeam(halfFan, seam)
                /\ \A v \in Cols : DPTable[0][seam[1]] <= DPTable[0][v]
                /\ \A c \in costs : PathCost(seam, 1) <= c[2]

\* the start columns differ in cost, the cheapest is not the first column
\* and no seam is free
C2_Witness ==
    /\ pc = "done"
    /\ halfFan >= 1
    /\ velocities[0] - bottomDP > 0
    /\ DPTable[0][velocities[0] - bottomDP] > 0
    /\ \E v \in Cols : DPTable[0][v] > DPTable[0][velocities[0] - bottomDP]

\* C3: when seamExtraction has returned, for every start column v0 the edge
\* costs along reconstruction(parentTable, v0, bottomDP) add up to
\* DPTable[0][v0].
C3_ReconstructionConsistency ==
    pc = "done" =>
        \A v0 \in Cols :
            PathCost(ColumnsOf(reconstruction(parentTable, v0, bottomDP)), 1)
                = DPTable[0][v0]

\* a start column that is not the cheapest, whose seam changes column and
\* has a cost
C3_Witness ==
    /\ pc = "done"
    /\ \E v0 \in Cols :
           LET seam == reconstruction(parentTable, v0, bottomDP)
           IN  /\ v0 # velocities[0] - bottomDP
               /\ DPTable[0][v0] > DPTable[0][velocities[0] - bottomDP]
               /\ \E t \in Rows : seam[t] # seam[0]
               /\ PathCost(ColumnsOf(seam), 1) > 0

\* C5: from the allocation of the cost table on (while it is filled, and
\* when seamExtraction has returned) its last time row is zero in every
\* column.
C5_TerminalRowZero ==
    pc \in {"fill", "reconstruct", "done"} =>
        \A v \in Cols : DPTable[tableHeight - 1][v] = 0

\* the row above the last one holds a cost, the last row none
C5_Witness ==
    /\ pc = "done"
    /\ \E v \in Cols : DPTable[tableHeight - 2][v] > 0
    /\ \A v \in Cols : DPTable[tableHeight - 1][v] = 0

\* C6: when seamExtraction has returned, every entry of the first row of
\* its cost table is at most the entry that a narrower window gives for the
\* same grids, order and theta, and at least the entry that a wider window
\* gives.
C6_WindowMonotone ==
    pc = "done" =>
        \A hf \in {HalfFanOf(w) : w \in 0 .. (MaxWidth + 2)} :
            \A other \in {CostRowFor(hf, 0)} :
                \A w \in {x \in 0 .. (MaxWidth + 2) : HalfFanOf(x) = hf} :
                    \A c \in other :
                        /\ w <= width => DPTable[0][c[1]] <= c[2]
                        /\ width <= w => c[2] <= DPTable[0][c[1]]

\* a wider window makes some start column strictly cheaper
C6_Witness ==
    /\ pc = "done"
    /\ \E w \in (width + 1) .. (MaxWidth + 2) :
           \E c \in CostRowFor(HalfFanOf(w), 0) : c[2] < DPTable[0][c[1]]

\* the successors of a cell: none on the last time row, else the columns
\* within hf of its own
SuccessorsOf(hf, t, v) == IF t >= tableHeight - 1 THEN {} ELSE Successors(hf, v)

\* C9: a call with an odd width w uses halfFan = (w+1)/2, the halfFan of
\* width w+1, and every cell has the same successors, so is reachable or
\* not alike, for both widths.
C9_OddWidthRoundsUp ==
    (pc # "call" /\ width % 2 = 1) =>
        /\ 2 * halfFan = width + 1
        /\ halfFan = HalfFanOf(width + 1)
        /\ pc = "done" =>
               \A t \in Rows : \A v \in Cols :
                   /\ SuccessorsOf(halfFan, t, v)
                          = SuccessorsOf(HalfFanOf(width + 1), t, v)
                   /\ (SuccessorsOf(HalfFanOf(width), t, v) = {})
                          <=> (SuccessorsOf(HalfFanOf(width + 1), t, v) = {})

\* a call with width 3 has returned, and a cell has successors two columns
\* away that half of 3, rounded down, would not give
C9_Witness ==
    /\ pc = "done"
    /\ width = 3
    /\ halfFan = 2
    /\ \E v \in Cols : Successors(halfFan, v) # Successors(1, v)

\* C4: on the ridge field (peak at the velocity bins 2,3,3,4 of the times
\* 0..3, zero elsewhere, amplitude only) the call with width 3, order 2,
\* theta 0 and bottomIndex 0 returns the seam 2,3,3,4.
C4_RidgeReturned ==
    pc = "done" => velocities = [t \in 0 .. (Len(ridge) - 1) |-> ridge[t + 1]]

\* C7: with both grids in use (complex mode) the call gives a cost table,
\* which for theta = 0 is the table of the amplitude grid alone and for
\* theta = 1 the table of the phase grid alone.
C7_ThetaBoundary ==
    (computeMode = "complex" /\ theta \in {0, ThetaDen} /\ pc # "call") =>
        /\ pc # "raised"
        /\ pc = "done" =>
               \A t \in Rows :
                   {<<v, DPTable[t][v]>> : v \in Cols} =
                       IF theta = 0
                       THEN CostRowOn(amplitudeArray, <<>>, theta, halfFan, t)
                       ELSE CostRowOn(<<>>, phaseArray, theta, halfFan, t)

\* C8: when seamExtraction has returned for an amplitude grid whose values
\* are all equal, every cell of the cost table is zero, and the returned
\* seam stays inside the bins of the slice, moves by at most halfFan bins
\* per time bin and has the total cost zero.
C8_FlatField ==
    (/\ pc = "done"
     /\ amplitudeArray # <<>>
     /\ \A t \in Rows : \A v \in Cols : amplitudeArray[t][v] = amplitudeArray[0][0]) =>
        /\ \A t \in Rows : \A v \in Cols : DPTable[t][v] = 0
        /\ \A t \in Rows :
               velocities[t] >= bottomDP /\ velocities[t] <= bottomDP + tableWidth - 1
        /\ ValidSeam(halfFan, ColumnsOf(velocities))
        /\ PathCost(ColumnsOf(velocities), 1) = 0

\* a flat amplitude grid above zero, weighed in the cost, with a window
\* that lets the seam move and a slice that does not start at bin 1
C8_Witness ==
    /\ pc = "done"
    /\ amplitudeArray # <<>>
    /\ amplitudeArray[0][0] > 0
    /\ theta < ThetaDen
    /\ halfFan >= 1
    /\ bottomIndex > 0
    /\ velocities[0] = bottomDP

\* C10: a call of mainTest with the arguments of the first call returns the
\* seam, the back-pointer table and the cost table that the first call
\* returned, whatever calls came in between.
C10_Deterministic ==
    (pc = "done" /\ calls >= 1 /\ first.args = <<width, order, theta>>) =>
        first.result = <<velocities, parentTable, DPTable>>

\* the third call has the arguments of the first, the first bin of the
\* slice has a cost and the seam starts at another bin
C10_Witness ==
    /\ pc = "done"
    /\ calls >= 2
    /\ first.args = <<width, order, theta>>
    /\ DPTable[0][0] > 0
    /\ velocities[0] # bottomDP

\* no table has been allocated and no seam returned
NothingBuilt ==
    /\ DPTable = <<>>
    /\ parentTable = <<>>
    /\ velocities = <<>>

\* C11: a call with stopTime <= startTime ends with ValueError at the check
\* of the time range: theta has not been converted or remapped, topIndex
\* is as passed, no slice has been requested, and there is no table and no
\* seam.
C11_RangeError ==
    (stopTime <= startTime /\ pc # "enter") =>
        /\ pc = "raised"
        /\ err = "ValueError"
        /\ stage = "range"
        /\ theta = 0
        /\ remaps = 0
        /\ topIndex = topIndexArg
        /\ real_raw_vals = <<>>
        /\ NothingBuilt

\* the call was rejected for stopTime = startTime, with a theta and a
\* topIndex that later lines would have failed on
C11_Witness ==
    /\ pc = "raised"
    /\ err = "ValueError"
    /\ stopTime = startTime
    /\ thetaArg.kind = "none"
    /\ topIndexArg = <<>>

\* C12: a call with a time range in order and a theta that is no number
\* (None, a string that is no number, a container) ends with TypeError, and
\* no table is built.
C12_ThetaTypeError ==
    (/\ stopTime > startTime
     /\ thetaArg.kind \in {"none", "text", "list"}
     /\ pc # "enter") =>
        /\ pc = "raised"
        /\ err = "TypeError"
        /\ NothingBuilt

\* C13: when the window leaves a cell without any candidate (halfFan < 0),
\* the call ends with UnreachableSeamError and returns no seam.
C13_UnreachableSeamError ==
    (stage = "sliced" /\ halfFan < 0 /\ pc \in {"raised", "reconstruct", "done"}) =>
        /\ pc = "raised"
        /\ err = "UnreachableSeamError"

\* C15: once topIndex is normalised, it is the top bin of the velocity axis
\* when it was passed as None or as a bin <= bottomIndex, and as passed
\* otherwise; it is above bottomIndex and a bin of the velocity axis.
C15_TopIndexNormalised ==
    stage \in {"slice", "sliced"} =>
        /\ IF topIndexArg = <<>> \/ topIndexArg[1] <= bottomIndex
           THEN topIndex = <<NumVelocity - 1>>
           ELSE topIndex = topIndexArg
        /\ topIndex[1] > bottomIndex
        /\ topIndex[1] \in 0 .. (NumVelocity - 1)

\* C16: once theta is normalised it lies in [0, 1]; a theta passed in [0, 1]
\* is kept, one below 0 has become exp(theta), one above 1 has become
\* exp(-theta), and at most one of the two assignments was made.
C16_ThetaNormalised ==
    stage \in {"slice", "sliced"} =>
        /\ theta >= 0 /\ theta <= ThetaDen
        /\ remaps <= 1
        /\ (thetaArg.val >= 0 /\ thetaArg.val <= ThetaDen) =>
               (theta = thetaArg.val /\ remaps = 0)
        /\ thetaArg.val < 0 =>
               /\ theta = ExpOnGrid(thetaArg.val)
               /\ Exp(thetaArg.val) > 0 /\ Exp(thetaArg.val) < ExpScale
               /\ remaps = 1
        /\ thetaArg.val > ThetaDen =>
               /\ theta = ExpOnGrid(0 - thetaArg.val)
               /\ Exp(0 - thetaArg.val) > 0 /\ Exp(0 - thetaArg.val) < ExpScale
               /\ remaps = 1

\* a call with a theta above 1 has returned, its theta remapped once
C16_Witness ==
    /\ pc = "done"
    /\ thetaArg.val > ThetaDen
    /\ remaps = 1
    /\ theta < ThetaDen

C14_TablesUnchanged ==
    [][(pc = "done" /\ pc' = "done") =>
           /\ parentTable' = parentTable
           /\ DPTable' = DPTable
           /\ \A v \in DOMAIN traces : traces'[v] = traces[v]]_vars

\* a start column has been reconstructed twice, and its seam changes bin
C14_Witness ==
    /\ pc = "done"
    /\ retraced >= 2
    /\ Cardinality(DOMAIN traces) < retraced
    /\ \E v \in DOMAIN traces : \E t \in Rows : traces[v][t] # traces[v][0]

\* C20: every seam that reconstruction(parentTable, v0, bottomDP) gave has
\* one entry per time row of the table, starts at v0 + bottomDP, goes on by
\* seam[t] = parentTable[t-1][seam[t-1] - bottomDP] + bottomDP, and is the
\* same whatever the last time row of the table holds.
C20_SeamRecurrence ==
    pc = "done" =>
        \A v0 \in DOMAIN traces :
            /\ DOMAIN traces[v0] = 0 .. (Length(parentTable) - 1)
            /\ traces[v0][0] = v0 + bottomDP
            /\ \A t \in 1 .. (Length(parentTable) - 1) :
                   traces[v0][t] =
                       parentTable[t - 1][traces[v0][t - 1] - bottomDP] + bottomDP
            /\ \A x \in Cols :
                   reconstruction(
                       [parentTable EXCEPT ![Length(parentTable) - 1] =
                                               [v \in Cols |-> x]],
                       v0, bottomDP) = traces[v0]

\* a seam from a start column that is not the cheapest, on a slice that
\* does not start at bin 1, changes bin
C20_Witness ==
    /\ pc = "done"
    /\ bottomDP > 1
    /\ \E v0 \in DOMAIN traces :
           /\ v0 + bottomDP # velocities[0]
           /\ \E t \in Rows : traces[v0][t] # traces[v0][0]

\* is the time bin t of the grid as passed flat
FlatBin(t) == RowMin(gridAsPassed[t]) = RowMax(gridAsPassed[t])

\* C18: in the grid normalize returns, every time bin that was not flat
\* holds, for every velocity bin, (input - minimum) / (maximum - minimum)
\* of its time bin as passed; its least value is 0 and its greatest is 1.
C18_NormalizedRows ==
    pc = "normalized" =>
        \A t \in DOMAIN gridAsPassed :
            ~FlatBin(t) =>
                LET row == gridAsPassed[t]
                    out == newArray[t]
                IN  /\ \A v \in DOMAIN row :
                           /\ out[v][2] > 0
                           /\ out[v][1] * (RowMax(row) - RowMin(row))
                                  = (row[v] - RowMin(row)) * out[v][2]
                           /\ out[v][1] >= 0
                           /\ out[v][1] <= out[v][2]
                    /\ \E v \in DOMAIN row : out[v][1] = 0
                    /\ \E v \in DOMAIN row : out[v][1] = out[v][2]

\* a time bin with a minimum below zero and a value strictly between its
\* minimum and its maximum has been normalised
C18_Witness ==
    /\ pc = "normalized"
    /\ \E t \in DOMAIN gridAsPassed :
           /\ RowMin(gridAsPassed[t]) < 0
           /\ \E v \in DOMAIN newArray[t] :
                  newArray[t][v][1] > 0 /\ newArray[t][v][1] < newArray[t][v][2]

\* C19: normalize on a grid with a flat time bin ends with a division by
\* zero error and returns no grid.
C19_FlatBinFails ==
    (pc \in {"normalized", "raised"} /\ \E t \in DOMAIN gridAsPassed : FlatBin(t)) =>
        /\ pc = "raised"
        /\ err = "ZeroDivisionError"

\* the columns that the cheapest edges from (t, v) lead to
CheapestSuccessors(t, v) ==
    {c \in Successors(halfFan, v) :
        \A d \in Successors(halfFan, v) :
            Edge(t, v, c) + DPTable[t + 1][c] <= Edge(t, v, d) + DPTable[t + 1][d]}

\* C21: when seamExtraction has returned, the back-pointer of every cell of
\* the rows 0..T-2 is the lowest column (the first offset of the scan from
\* -halfFan to +halfFan) among the columns that the cheapest edges lead to,
\* and the returned seam starts at the lowest column among those of least
\* cost in the first row of the cost table.
C21_FirstMinimumKept ==
    pc = "done" =>
        /\ \A t \in 0 .. (tableHeight - 2) : \A v \in Cols :
               parentTable[t][v] = MinOf(CheapestSuccessors(t, v))
        /\ velocities[0] - bottomDP =
               MinOf({v \in Cols : \A u \in Cols : DPTable[0][v] <= DPTable[0][u]})

\* a cell with a cost has two cheapest edges, and two start columns, neither
\* the first column, are the cheapest
C21_Witness ==
    /\ pc = "done"
    /\ \E v \in Cols :
           /\ DPTable[0][v] > 0
           /\ Cardinality(CheapestSuccessors(0, v)) >= 2
           /\ parentTable[0][v] # v
    /\ velocities[0] - bottomDP > 0
    /\ \E u \in Cols : u > velocities[0] - bottomDP /\ DPTable[0][u] = DPTable[0][velocities[0] - bottomDP]

\* C22: once the grids of the compute mode are chosen, complex mode has both
\* grids in the edge costs and the call goes on to return a seam;
\* psd/magnitude mode has the amplitude grid alone (phase term 0), and
\* angle/phase mode has the phase grid alone (amplitude term 0).
C22_ModeDecidesTerms ==
    pc # "call" =>
        /\ computeMode = "complex" =>
               /\ pc # "raised"
               /\ amplitudeArray = real_raw_vals
               /\ phaseArray # <<>>
        /\ computeMode \in {"psd", "magnitude"} =>
               (amplitudeArray = real_raw_vals /\ phaseArray = <<>>)
        /\ computeMode \in {"angle", "phase"} =>
               (phaseArray = ovals /\ amplitudeArray = <<>>)

\* C23: whenever the two tables are built, the amplitude grid or the phase
\* grid is there: no compute mode lets a call go on with both grids empty.
C23_SomeGridPresent ==
    pc \in {"fill", "reconstruct", "done"} =>
        (amplitudeArray # <<>> \/ phaseArray # <<>>)

\* the cells of the rows 0..T-2
FilledCells == (0 .. (tableHeight - 2)) \X Cols

\* the cells that come before (dpTime, velocityIndex) in the order of the
\* loops of lines 104-106: the rows below dpTime in time, and the columns
\* of its own row before velocityIndex
CellsBefore(t, v) == {c \in FilledCells : c[1] > t \/ (c[1] = t /\ c[2] < v)}

\* C24: within a call, when the cell (dpTime, velocityIndex) is computed
\* the cells stored so far are the rows T-2 down to dpTime+1 in full and
\* the columns before velocityIndex of row dpTime, each stored once; the
\* step stores that cell alone; a stored cell keeps its cost and its
\* back-pointer in every later step; and reconstruction (at the end of the
\* call or from mainTest) runs only when every cell of the rows 0..T-2 has
\* been stored exactly once.
C24_RowsInOrder ==
    [][/\ pc = "fill" =>
              /\ \A c \in FilledCells :
                     written[c[1]][c[2]] =
                         IF c \in CellsBefore(dpTime, velocityIndex) THEN 1 ELSE 0
              /\ \A c \in FilledCells :
                     c # <<dpTime, velocityIndex>> =>
                         written'[c[1]][c[2]] = written[c[1]][c[2]]
              /\ written'[dpTime][velocityIndex] = 1
              /\ \A c \in Cols : /\ DPTable'[dpTime + 1][c] = DPTable[dpTime + 1][c]
                                 /\ dpTime + 1 <= tableHeight - 2 =>
                                        written[dpTime + 1][c] = 1
       /\ (pc \in {"fill", "reconstruct", "done"} /\ pc' \in {"fill", "reconstruct", "done"}) =>
              \A c \in FilledCells :
                  written[c[1]][c[2]] = 1 =>
                      /\ written'[c[1]][c[2]] = 1
                      /\ DPTable'[c[1]][c[2]] = DPTable[c[1]][c[2]]
                      /\ parentTable'[c[1]][c[2]] = parentTable[c[1]][c[2]]
       /\ (pc \in {"reconstruct", "done"} /\ (velocities' # velocities \/ traces' # traces)) =>
              \A c \in FilledCells : written[c[1]][c[2]] = 1]_vars

\* the call has returned a seam that changes bin, every cell of the rows
\* 0..T-2 was stored once, none of the last row, and mainTest has
\* reconstructed a seam from the tables
C24_Witness ==
    /\ pc = "done"
    /\ tableHeight >= 3
    /\ \A c \in FilledCells : written[c[1]][c[2]] = 1
    /\ \A v \in Cols : written[tableHeight - 1][v] = 0
    /\ \E t \in Rows : velocities[t] # velocities[0]
    /\ retraced >= 1

\* C25: the grid given to normalize is, while normalize runs and when it has
\* returned, equal to the grid as it was passed.
C25_GridReadOnly ==
    pc \in {"rows", "normalized"} => timeVelocityIntensity = gridAsPassed

\* is the seam inside the bins bottomIndex+1..topIndex, moving by at most
\* halfFan bins per time bin, and constant when halfFan is 0
SeamInside(seam) ==
    /\ \A t \in Rows : seam[t] >= bottomIndex + 1 /\ seam[t] <= topIndex[1]
    /\ \A t \in 0 .. (tableHeight - 2) : Abs(seam[t + 1] - seam[t]) <= halfFan
    /\ halfFan = 0 => \A t \in Rows : seam[t] = seam[0]

\* C26: when seamExtraction has returned (the window being non-negative),
\* every cell of the rows 0..T-2 has its own column among its candidates,
\* its back-pointer has been stored, is a column of the slice and is at most
\* halfFan columns away from the cell's own; and the returned seam, the
\* seam from every start column of the slice and every seam mainTest
\* reconstructed stay inside the bins bottomIndex+1..topIndex and move by at
\* most halfFan bins per time bin (not at all when halfFan is 0).
C26_PointersAndSeamsInside ==
    pc = "done" =>
        /\ \A t \in 0 .. (tableHeight - 2) : \A v \in Cols :
               /\ v \in Successors(halfFan, v)
               /\ written[t][v] = 1
               /\ parentTable[t][v] \in Cols
               /\ Abs(parentTable[t][v] - v) <= halfFan
        /\ SeamInside(velocities)
        /\ \A v0 \in Cols : SeamInside(reconstruction(parentTable, v0, bottomDP))
        /\ \A v0 \in DOMAIN traces : SeamInside(traces[v0])

\* on a slice that does not start at bin 1, a reconstructed seam starts at
\* the top bin, moves by the whole halfFan in one step and reaches the
\* lowest bin of the slice
C26_Witness ==
    /\ pc = "done"
    /\ bottomIndex >= 1
    /\ halfFan >= 2
    /\ \E v0 \in DOMAIN traces :
           /\ traces[v0][0] = topIndex[1]
           /\ \E t \in 0 .. (tableHeight - 2) :
                  Abs(traces[v0][t + 1] - traces[v0][t]) = halfFan
           /\ \E t \in Rows : traces[v0][t] = bottomIndex + 1

\* C27: when the slice is requested, bottomIndex + 1 and the normalised
\* topIndex are bins of the velocity axis, for every bottomIndex of the axis
\* and every topIndex left out or of the axis; and when a table has been
\* allocated, startTime and stopTime are bins of the time axis.
C27_SliceIndicesValid ==
    /\ stage \in {"slice", "sliced"} =>
           /\ bottomIndex + 1 \in 0 .. (NumVelocity - 1)
           /\ topIndex[1] \in 0 .. (NumVelocity - 1)
    /\ DPTable # <<>> =>
           /\ startTime \in 0 .. (NumTimes - 1)
           /\ stopTime \in 0 .. (NumTimes - 1)

\* the selected paths of a source file
PathsOf(src) == {p \in paths : p[1] = src}

\* C28: for every source file with selected segments, the postsegment
\* routines have run exactly once when segments() returns with the results
\* of all its segments delivered, and never before all of them are in
\* self.results; and at every moment at least as many results of the
\* source are recorded as its countdown has been decremented.
C28_PostsegmentOnce ==
    \A src \in {p[1] : p \in paths} :
        /\ (/\ pc = "returned"
            /\ ~dry
            /\ \A p \in PathsOf(src) : p \in DOMAIN results) =>
               postsegmentRuns[src] = 1
        /\ postsegmentRuns[src] <= 1
        /\ postsegmentRuns[src] = 1 => \A p \in PathsOf(src) : p \in DOMAIN results
        /\ src \in DOMAIN num_segments =>
               Cardinality(PathsOf(src) \cap DOMAIN results)
                   >= Cardinality(PathsOf(src)) - num_segments[src]

=============================================================================
